---- MODULE Spec2Model ----
(***************************************************************************)
(* Model of send_metadata.py: the META-SHARE -> COMEDI metadata bridge.    *)
(*                                                                         *)
(* One run of send_metadata is a loop over the records the generator      *)
(* metashare_cmdi_records yields.  The model follows the control flow of   *)
(* the script between its calls to the outside world (source GetRecord,    *)
(* destination delete, destination upload).  A Python exception that no    *)
(* handler of the script catches ends the run: pc = "aborted".             *)
(*                                                                         *)
(* Texts are sequences of tokens; the markers the script splits on         *)
(* ("urn.fi/", "urn:nbn:fi:") and whitespace are tokens of their own.      *)
(* An xpath result is the list of matches, as in lxml; a Python name that  *)
(* is not bound yet is the empty list, a bound one the one-element list.   *)
(*                                                                         *)
(* Left out: the texts of the messages (and with them the header           *)
(* identifier read for them), the session id, the group and the published  *)
(* parameter of the upload, and failures of the source other than          *)
(* CannotDisseminateFormat.                                                *)
(***************************************************************************)
EXTENDS Integers, Sequences, FiniteSets, TLC

MaxRecords == 3     \* identifiers the source lists in one run, at most
MaxRuns == 2        \* invocations of the script against the same destination

(***************************************************************************)
(* Text helpers: str.split and str.strip on token sequences.               *)
(***************************************************************************)
URN_FI == "urn.fi/"
NBN_PREFIX == "urn:nbn:fi:"
WS == " "

RECURSIVE Split(_, _)
Split(s, sep) ==
    IF \A i \in 1..Len(s) : s[i] # sep
    THEN <<s>>
    ELSE LET k == CHOOSE i \in 1..Len(s) :
                     s[i] = sep /\ \A j \in 1..(i - 1) : s[j] # sep
         IN  <<SubSeq(s, 1, k - 1)>> \o Split(SubSeq(s, k + 1, Len(s)), sep)

RECURSIVE LStrip(_)
LStrip(s) == IF s # <<>> /\ Head(s) = WS THEN LStrip(Tail(s)) ELSE s

RECURSIVE RStrip(_)
RStrip(s) ==
    IF s # <<>> /\ s[Len(s)] = WS THEN RStrip(SubSeq(s, 1, Len(s) - 1)) ELSE s

Strip(s) == RStrip(LStrip(s))

(***************************************************************************)
(* The documents the source can return for a record.                       *)
(*   cmd        : matches of oai:metadata/cmd:CMD (none or one subtree)    *)
(*   selfLink   : matches of cmd:Header/cmd:MdSelfLink, each its .text     *)
(*                (<<>> is the None text of an empty element)              *)
(*   identifier : text nodes of ...identificationInfo/cmd:identifier       *)
(*                (an empty element has no text node)                      *)
(***************************************************************************)
ResolverLink == <<"http://", URN_FI, NBN_PREFIX, "lb-1">>
PlainIdentifier == <<NBN_PREFIX, "lb-1">>

SelfLinkFields ==
    { <<>>,                              \* no MdSelfLink element
      << <<>> >>,                        \* empty element
      << ResolverLink >>,                \* resolver URL
      << <<NBN_PREFIX, "lb-1">> >> }     \* already a bare URN

IdentifierFields ==
    { <<>>,                                              \* no identifier text
      << PlainIdentifier >>,
      << <<NBN_PREFIX, "lb-1", WS>> >>,                  \* trailing whitespace
      << <<"lb-1">> >>,                                  \* no prefix
      << <<NBN_PREFIX>> >>,                              \* only the prefix
      << <<NBN_PREFIX, WS>> >>,                          \* prefix and whitespace
      << <<NBN_PREFIX, "lb-1", NBN_PREFIX, "lb-2">> >> } \* prefix twice

\* The identifier is read only once the self link was rewritten, so the
\* self links that cannot be rewritten come with one identifier.
CmdSubtrees ==
    {[selfLink |-> << ResolverLink >>, identifier |-> i] : i \in IdentifierFields}
    \cup {[selfLink |-> l, identifier |-> << PlainIdentifier >>] : l \in SelfLinkFields}

Documents == {[cmd |-> <<>>]} \cup {[cmd |-> <<c>>] : c \in CmdSubtrees}

NoRecord == [cmd |-> <<>>]

(***************************************************************************)
(* Format candidates, in the order of the list in metashare_cmdi_records.  *)
(***************************************************************************)
Formats == <<"cmdi0554", "cmdi0571", "cmdi2312", "cmdi9836">>

(***************************************************************************)
(* Destinations.  The upload goes to comedi_upload_url; the delete goes    *)
(* to the URL written in delete_from_comedi.                               *)
(***************************************************************************)
DefaultComedi == "https://clarino.uib.no/comedi"
OtherComedi == "https://comedi.example"
Destinations == {DefaultComedi, OtherComedi}
DeleteUrlHost == DefaultComedi

VARIABLES
    run,                 \* number of the current invocation of the script
    metadata_records,    \* number of identifiers ListIdentifiers delivers
    comedi_upload_url,   \* --comedi-upload-url
    delete_before_upload,\* --delete-before-upload
    pc,                  \* position of send_metadata
    record,              \* index of the identifier the generator is at
    metadata_format,     \* index into Formats of the candidate being tried
    queried,             \* GetRecord queries made for the current identifier
    response_xml,        \* the document the generator yielded, as yielded
    cmdi_record,         \* the yielded document object (modified in place)
    cmdi_data,           \* local cmdi_data: <<>> or <<serialized subtree>>
    urn,                 \* local urn: <<>> or <<canonical identifier>>
    successful_records,
    failed_records,
    outcomes,            \* per identifier of this run: what became of it
    requests,            \* requests sent for this record, each with its result
    reply,               \* what the last upload call came back with
    exc,                 \* the exception that ended the run, if any
    catalog,             \* per destination: identifiers it holds
    present_before,      \* identifiers the upload destination held at start
    calls                \* function calls made on a document outside a run

vars == <<run, metadata_records, comedi_upload_url, delete_before_upload, pc,
          record, metadata_format, queried, response_xml, cmdi_record,
          cmdi_data, urn, successful_records, failed_records, outcomes,
          requests, reply, exc, catalog, present_before, calls>>

config == <<metadata_records, comedi_upload_url, delete_before_upload>>
locals == <<response_xml, cmdi_record, cmdi_data, urn>>
counters == <<successful_records, failed_records>>

NoException == [type |-> "none", raised_by |-> "none"]
NoReply == [transport |-> "none", error |-> FALSE, success |-> "absent",
            verdict |-> "none"]


IsBound(x) == x # <<>>
Val(x) == x[1]

\* Faulty variant: the part before "urn.fi/" is kept (index 0 for 1).
SelfLinkUrnOnly_KeepsUrlPart(metashare_cmdi_record) ==
    IF metashare_cmdi_record.selfLink = <<>>
    THEN [exc |-> "ParseError", cmd |-> metashare_cmdi_record]
    ELSE LET text == metashare_cmdi_record.selfLink[1]
         IN  IF text = <<>>
             THEN [exc |-> "AttributeError", cmd |-> metashare_cmdi_record]
             ELSE LET parts == Split(text, URN_FI)
                  IN  IF Len(parts) < 2
                      THEN [exc |-> "IndexError", cmd |-> metashare_cmdi_record]
                      ELSE [exc |-> "none",
                            cmd |-> [metashare_cmdi_record
                                       EXCEPT !.selfLink = <<parts[1]>>]]

\* Faulty variant: the rewritten text is stored in the identifier element
\* (the xpath of the wrong element).
SelfLinkUrnOnly_RewritesIdentifier(metashare_cmdi_record) ==
    IF metashare_cmdi_record.selfLink = <<>>
    THEN [exc |-> "ParseError", cmd |-> metashare_cmdi_record]
    ELSE LET text == metashare_cmdi_record.selfLink[1]
         IN  IF text = <<>>
             THEN [exc |-> "AttributeError", cmd |-> metashare_cmdi_record]
             ELSE LET parts == Split(text, URN_FI)
                  IN  IF Len(parts) < 2
                      THEN [exc |-> "IndexError", cmd |-> metashare_cmdi_record]
                      ELSE [exc |-> "none",
                            cmd |-> [metashare_cmdi_record
                                       EXCEPT !.identifier = <<parts[2]>>]]

(***************************************************************************)
(* self_link_urn_only: the modifier applied to the CMD subtree in place.   *)
(* Result: the exception raised ("none" when it returns) and the subtree   *)
(* as the call leaves it.                                                  *)
(***************************************************************************)
SelfLinkUrnOnly(metashare_cmdi_record) ==
    IF metashare_cmdi_record.selfLink = <<>>
    THEN [exc |-> "ParseError", cmd |-> metashare_cmdi_record]
    ELSE LET text == metashare_cmdi_record.selfLink[1]
         IN  IF text = <<>>          \* None has no split
             THEN [exc |-> "AttributeError", cmd |-> metashare_cmdi_record]
             ELSE LET parts == Split(text, URN_FI)
                  IN  IF Len(parts) < 2
                      THEN [exc |-> "IndexError", cmd |-> metashare_cmdi_record]
                      ELSE [exc |-> "none",
                            cmd |-> [metashare_cmdi_record
                                       EXCEPT !.selfLink = <<parts[2]>>]]

ApplyModifier(modifier, cmd) ==
    IF modifier = "self_link_urn_only"
    THEN SelfLinkUrnOnly(cmd)
    ELSE [exc |-> "none", cmd |-> cmd]

RECURSIVE ApplyModifiers(_, _)
ApplyModifiers(modifiers, cmd) ==
    IF modifiers = <<>>
    THEN [exc |-> "none", cmd |-> cmd]
    ELSE LET r == ApplyModifier(Head(modifiers), cmd)
         IN  IF r.exc # "none" THEN r ELSE ApplyModifiers(Tail(modifiers), r.cmd)

\* lxml.etree.tostring(cmdi_record, xml_declaration=True, encoding="utf-8")
EtreeTostring(cmd) == [xml_declaration |-> TRUE, root |-> cmd]

\* Faulty variant: the IndexError of the empty xpath result is not turned into a
\* ParseError.
ExtractCmdiMetadata_NoTry(metashare_record, modifiers) ==
    IF metashare_record.cmd = <<>>
    THEN [exc |-> "IndexError", record |-> metashare_record, xml_content |-> <<>>]
    ELSE LET m == ApplyModifiers(modifiers, metashare_record.cmd[1])
             after == [metashare_record EXCEPT !.cmd = <<m.cmd>>]
         IN  IF m.exc # "none"
             THEN [exc |-> m.exc, record |-> after, xml_content |-> <<>>]
             ELSE [exc |-> "none", record |-> after,
                   xml_content |-> <<EtreeTostring(m.cmd)>>]

(***************************************************************************)
(* extract_cmdi_metadata: exception raised, the record as the call leaves  *)
(* it, and the returned XML (the empty list when it raised).               *)
(***************************************************************************)
ExtractCmdiMetadata(metashare_record, modifiers) ==
    IF metashare_record.cmd = <<>>
    THEN [exc |-> "ParseError", record |-> metashare_record, xml_content |-> <<>>]
    ELSE LET m == ApplyModifiers(modifiers, metashare_record.cmd[1])
             after == [metashare_record EXCEPT !.cmd = <<m.cmd>>]
         IN  IF m.exc # "none"
             THEN [exc |-> m.exc, record |-> after, xml_content |-> <<>>]
             ELSE [exc |-> "none", record |-> after,
                   xml_content |-> <<EtreeTostring(m.cmd)>>]

\* Faulty variant: the identifier is returned without strip().
ExtractUrn_NoStrip(metashare_record) ==
    LET texts == IF metashare_record.cmd = <<>>
                 THEN <<>>
                 ELSE metashare_record.cmd[1].identifier
    IN  IF texts = <<>>
        THEN [exc |-> "ParseError", urn |-> <<>>]
        ELSE LET parts == Split(texts[1], NBN_PREFIX)
             IN  IF Len(parts) < 2
                 THEN [exc |-> "ParseError", urn |-> <<>>]
                 ELSE [exc |-> "none", urn |-> <<parts[2]>>]

(***************************************************************************)
(* extract_urn: exception raised and the returned identifier.              *)
(***************************************************************************)
ExtractUrn(metashare_record) ==
    LET texts == IF metashare_record.cmd = <<>>
                 THEN <<>>
                 ELSE metashare_record.cmd[1].identifier
    IN  IF texts = <<>>
        THEN [exc |-> "ParseError", urn |-> <<>>]
        ELSE LET parts == Split(texts[1], NBN_PREFIX)
             IN  IF Len(parts) < 2
                 THEN [exc |-> "ParseError", urn |-> <<>>]
                 ELSE [exc |-> "none", urn |-> <<Strip(parts[2])>>]

(***************************************************************************)
(* The try block of send_metadata (extract_cmdi_metadata, then             *)
(* extract_urn): the exception that leaves it and the locals afterwards.   *)
(***************************************************************************)
TryExtract(record_in, data_in, urn_in) ==
    LET m == ExtractCmdiMetadata(record_in, <<"self_link_urn_only">>)
    IN  IF m.exc # "none"
        THEN [exc |-> m.exc, record |-> m.record, data |-> data_in, urn |-> urn_in]
        ELSE LET u == ExtractUrn(m.record)
             IN  IF u.exc # "none"
                 THEN [exc |-> u.exc, record |-> m.record,
                       data |-> m.xml_content, urn |-> urn_in]
                 ELSE [exc |-> "none", record |-> m.record,
                       data |-> m.xml_content, urn |-> u.urn]

(***************************************************************************)
(* upload_cmdi_to_comedi after requests.post was sent: the exception the   *)
(* call raises for what came back.                                         *)
(***************************************************************************)
Truthy(success) == success = "true"

\* Faulty variant: the error field of the reply is not looked at.
UploadCmdiToComedi_IgnoresErrorField(r) ==
    IF r.transport = "ConnectionError" THEN "ConnectionError"
    ELSE IF r.transport = "HTTPError" THEN "HTTPError"
    ELSE IF r.transport = "JSONDecodeError" THEN "JSONDecodeError"
    ELSE IF r.success = "absent" \/ ~Truthy(r.success) THEN "UploadError"
    ELSE "none"

UploadCmdiToComedi(r) ==
    IF r.transport = "ConnectionError" THEN "ConnectionError"
    ELSE IF r.transport = "HTTPError" THEN "HTTPError"
    ELSE IF r.transport = "JSONDecodeError" THEN "JSONDecodeError"
    ELSE IF r.error THEN "UploadError"
    ELSE IF r.success = "absent" \/ ~Truthy(r.success) THEN "UploadError"
    ELSE "none"

\* The except clauses of send_metadata.
CaughtAtExtract(e) == e = "ParseError"
CaughtAtUpload(e) == e = "UploadError"


(***************************************************************************)
(* Start of the script.                                                    *)
(***************************************************************************)
Init ==
    /\ run = 1
    /\ metadata_records \in 0..MaxRecords
    /\ comedi_upload_url \in Destinations
    /\ delete_before_upload \in BOOLEAN
    /\ pc = "iterate"
    /\ record = 0
    /\ metadata_format = 0
    /\ queried = <<>>
    /\ response_xml = NoRecord
    /\ cmdi_record = NoRecord
    /\ cmdi_data = <<>>
    /\ urn = <<>>
    /\ successful_records = 0
    /\ failed_records = 0
    /\ outcomes = <<>>
    /\ requests = <<>>
    /\ reply = NoReply
    /\ exc = NoException
    /\ catalog = [d \in Destinations |-> {}]
    /\ present_before = {}
    /\ calls = <<>>

\* Faulty variant: the next identifier is taken while the yielded record
\* has not been processed yet.
NextIdentifier_Prefetch ==
    /\ pc \in {"iterate", "extract"}
    /\ record < metadata_records
    /\ record' = record + 1
    /\ metadata_format' = 1
    /\ queried' = <<>>
    /\ requests' = <<>>
    /\ reply' = NoReply
    /\ pc' = "get_record"
    /\ UNCHANGED <<calls, run, config, locals, counters, outcomes, exc, catalog,
                   present_before>>

(***************************************************************************)
(* metashare_cmdi_records: the outer loop takes the next identifier.       *)
(***************************************************************************)
NextIdentifier ==
    /\ pc = "iterate"
    /\ record < metadata_records
    /\ record' = record + 1
    /\ metadata_format' = 1
    /\ queried' = <<>>
    /\ requests' = <<>>
    /\ reply' = NoReply
    /\ pc' = "get_record"
    /\ UNCHANGED <<calls, run, config, locals, counters, outcomes, exc, catalog,
                   present_before>>

\* Faulty variant: an unsupported candidate ends the negotiation of the
\* identifier (break in place of continue).
GetRecordUnsupported_Breaks ==
    /\ pc = "get_record"
    /\ queried' = Append(queried, [metadataPrefix |-> Formats[metadata_format],
                                   result |-> "CannotDisseminateFormat"])
    /\ pc' = "iterate"
    /\ outcomes' = Append(outcomes, "skipped")
    /\ UNCHANGED <<calls, run, config, record, metadata_format, locals, counters,
                   requests, reply, exc, catalog, present_before>>

\* Faulty variant: an identifier without any producible format is counted as failed.
GetRecordUnsupported_CountsFailure ==
    /\ pc = "get_record"
    /\ queried' = Append(queried, [metadataPrefix |-> Formats[metadata_format],
                                   result |-> "CannotDisseminateFormat"])
    /\ IF metadata_format < Len(Formats)
       THEN /\ metadata_format' = metadata_format + 1
            /\ UNCHANGED <<pc, outcomes, failed_records>>
       ELSE /\ pc' = "iterate"
            /\ outcomes' = Append(outcomes, "skipped")
            /\ failed_records' = failed_records + 1
            /\ UNCHANGED metadata_format
    /\ UNCHANGED <<calls, run, config, record, locals, successful_records, requests,
                   reply, exc, catalog, present_before>>

(***************************************************************************)
(* sickle.GetRecord raises CannotDisseminateFormat: the next candidate is  *)
(* tried; after the last candidate the identifier yields nothing.          *)
(***************************************************************************)
GetRecordUnsupported ==
    /\ pc = "get_record"
    /\ queried' = Append(queried, [metadataPrefix |-> Formats[metadata_format],
                                   result |-> "CannotDisseminateFormat"])
    /\ IF metadata_format < Len(Formats)
       THEN /\ metadata_format' = metadata_format + 1
            /\ UNCHANGED <<pc, outcomes>>
       ELSE /\ pc' = "iterate"
            /\ outcomes' = Append(outcomes, "skipped")
            /\ UNCHANGED metadata_format
    /\ UNCHANGED <<calls, run, config, record, locals, counters, requests, reply, exc,
                   catalog, present_before>>

(***************************************************************************)
(* sickle.GetRecord returns: the generator yields response.xml and the     *)
(* loop body of send_metadata binds it to cmdi_record.                     *)
(***************************************************************************)
GetRecordYield ==
    /\ pc = "get_record"
    /\ \E doc \in Documents :
          /\ response_xml' = doc
          /\ cmdi_record' = doc
    /\ queried' = Append(queried, [metadataPrefix |-> Formats[metadata_format],
                                   result |-> "record"])
    /\ pc' = "extract"
    /\ UNCHANGED <<calls, run, config, record, metadata_format, cmdi_data, urn,
                   counters, outcomes, requests, reply, exc, catalog,
                   present_before>>

\* Faulty variant: the except ParseError clause does not continue with the next
\* record, so the delete and the upload follow with whatever is bound.
Extract_NoContinue ==
    /\ pc = "extract"
    /\ LET r == TryExtract(cmdi_record, cmdi_data, urn)
       IN  /\ cmdi_record' = r.record
           /\ cmdi_data' = r.data
           /\ urn' = r.urn
           /\ IF r.exc = "none"
              THEN /\ pc' = IF delete_before_upload THEN "delete" ELSE "upload"
                   /\ UNCHANGED <<failed_records, outcomes, exc>>
              ELSE IF CaughtAtExtract(r.exc)
              THEN /\ failed_records' = failed_records + 1
                   /\ pc' = IF delete_before_upload THEN "delete" ELSE "upload"
                   /\ UNCHANGED <<outcomes, exc>>
              ELSE /\ pc' = "aborted"
                   /\ exc' = [type |-> r.exc, raised_by |-> "self_link_urn_only"]
                   /\ UNCHANGED <<failed_records, outcomes>>
    /\ UNCHANGED <<calls, run, config, record, metadata_format, queried, response_xml,
                   successful_records, requests, reply, catalog, present_before>>

(***************************************************************************)
(* The try block around extract_cmdi_metadata and extract_urn, with its    *)
(* except ParseError clause.                                               *)
(***************************************************************************)
Extract ==
    /\ pc = "extract"
    /\ LET r == TryExtract(cmdi_record, cmdi_data, urn)
       IN  /\ cmdi_record' = r.record
           /\ cmdi_data' = r.data
           /\ urn' = r.urn
           /\ IF r.exc = "none"
              THEN /\ pc' = IF delete_before_upload THEN "delete" ELSE "upload"
                   /\ UNCHANGED <<failed_records, outcomes, exc>>
              ELSE IF CaughtAtExtract(r.exc)
              THEN /\ failed_records' = failed_records + 1
                   /\ outcomes' = Append(outcomes, "failed_extraction")
                   /\ pc' = "iterate"
                   /\ UNCHANGED exc
              ELSE /\ pc' = "aborted"
                   /\ exc' = [type |-> r.exc, raised_by |-> "self_link_urn_only"]
                   /\ UNCHANGED <<failed_records, outcomes>>
    /\ UNCHANGED <<calls, run, config, record, metadata_format, queried, response_xml,
                   successful_records, requests, reply, catalog, present_before>>


(***************************************************************************)
(* The requests the script sends to a destination.                         *)
(***************************************************************************)
DeleteRequest(identifier) ==
    [command |-> "delete-record", host |-> DeleteUrlHost,
     identifier |-> identifier, file |-> <<>>]

UploadRequest(data, identifier, upload_url) ==
    [command |-> "upload", host |-> upload_url,
     identifier |-> identifier, file |-> data]

(***************************************************************************)
(* What a destination does with a request it receives.                     *)
(*   delete-record: "deleted" removes the identifier it held, "not_found"  *)
(*   when it held none, "error" when it refuses (nothing changes).         *)
(*   upload: "accepted" stores the record; "refused" rejects its content;  *)
(*   "duplicate" rejects it because the identifier is already held.        *)
(***************************************************************************)
DeleteResults(req) ==
    {"error"} \cup (IF Val(req.identifier) \in catalog[req.host]
                    THEN {"deleted"}
                    ELSE {"not_found"})

AfterDelete(req, result) ==
    IF result = "deleted"
    THEN [catalog EXCEPT ![req.host] = @ \ {Val(req.identifier)}]
    ELSE catalog

UploadVerdicts(req) ==
    {"accepted", "refused"} \cup (IF Val(req.identifier) \in catalog[req.host]
                                  THEN {"duplicate"}
                                  ELSE {})

AfterUpload(req, verdict) ==
    IF verdict = "accepted"
    THEN [catalog EXCEPT ![req.host] = @ \cup {Val(req.identifier)}]
    ELSE catalog

\* The JSON replies of the upload endpoint: optional error, optional success.
JsonReplies == [error : BOOLEAN, success : {"absent", "true", "false"}]

Acceptance(j) == ~j.error /\ j.success = "true"

\* What requests.post / raise_for_status / response.json() can come back with.
UploadReplies(req) ==
    {[transport |-> "ConnectionError", error |-> FALSE, success |-> "absent",
      verdict |-> "none"]}
    \cup {[transport |-> t, error |-> FALSE, success |-> "absent",
           verdict |-> "refused"] : t \in {"HTTPError", "JSONDecodeError"}}
    \cup {[transport |-> "ok", error |-> j.error, success |-> j.success,
           verdict |-> v] :
             <<j, v>> \in {x \in JsonReplies \X UploadVerdicts(req) :
                              Acceptance(x[1]) <=> x[2] = "accepted"}}

(***************************************************************************)
(* if delete_before_upload: delete_from_comedi(urn, comedi_session_id)     *)
(***************************************************************************)
Delete ==
    /\ pc = "delete"
    /\ LET req == DeleteRequest(urn)
       IN  \/ \E result \in DeleteResults(req) :
                /\ requests' = Append(requests, [request |-> req, result |-> result])
                /\ catalog' = AfterDelete(req, result)
                /\ pc' = "upload"
                /\ UNCHANGED exc
           \/ /\ requests' = Append(requests, [request |-> req,
                                                result |-> "ConnectionError"])
              /\ pc' = "aborted"
              /\ exc' = [type |-> "ConnectionError", raised_by |-> "delete_from_comedi"]
              /\ UNCHANGED catalog
    /\ UNCHANGED <<calls, run, config, record, metadata_format, queried, locals,
                   counters, outcomes, reply, present_before>>

\* Faulty variant: a refused upload is sent again.
Upload_Retries ==
    /\ pc = "upload"
    /\ LET req == UploadRequest(cmdi_data, urn, comedi_upload_url)
       IN  \E r \in UploadReplies(req) :
              LET e == UploadCmdiToComedi(r)
              IN  /\ requests' = Append(requests, [request |-> req,
                                                    result |-> r.transport])
                  /\ reply' = r
                  /\ catalog' = AfterUpload(req, r.verdict)
                  /\ IF e = "none"
                     THEN /\ successful_records' = successful_records + 1
                          /\ outcomes' = Append(outcomes, "uploaded")
                          /\ pc' = "iterate"
                          /\ UNCHANGED <<failed_records, exc>>
                     ELSE IF CaughtAtUpload(e)
                     THEN /\ Len(requests) < 2
                          /\ pc' = "upload"
                          /\ UNCHANGED <<counters, outcomes, exc>>
                     ELSE /\ pc' = "aborted"
                          /\ exc' = [type |-> e, raised_by |-> "upload_cmdi_to_comedi"]
                          /\ UNCHANGED <<counters, outcomes>>
    /\ UNCHANGED <<calls, run, config, record, metadata_format, queried, locals,
                   present_before>>

\* Faulty variant: the else of the try statement is missing, so a record whose
\* upload failed is counted as successful as well.
Upload_NoElse ==
    /\ pc = "upload"
    /\ LET req == UploadRequest(cmdi_data, urn, comedi_upload_url)
       IN  \E r \in UploadReplies(req) :
              LET e == UploadCmdiToComedi(r)
              IN  /\ requests' = Append(requests, [request |-> req,
                                                    result |-> r.transport])
                  /\ reply' = r
                  /\ catalog' = AfterUpload(req, r.verdict)
                  /\ IF e = "none"
                     THEN /\ successful_records' = successful_records + 1
                          /\ outcomes' = Append(outcomes, "uploaded")
                          /\ pc' = "iterate"
                          /\ UNCHANGED <<failed_records, exc>>
                     ELSE IF CaughtAtUpload(e)
                     THEN /\ failed_records' = failed_records + 1
                          /\ successful_records' = successful_records + 1
                          /\ outcomes' = Append(outcomes, "failed_upload")
                          /\ pc' = "iterate"
                          /\ UNCHANGED exc
                     ELSE /\ pc' = "aborted"
                          /\ exc' = [type |-> e, raised_by |-> "upload_cmdi_to_comedi"]
                          /\ UNCHANGED <<counters, outcomes>>
    /\ UNCHANGED <<calls, run, config, record, metadata_format, queried, locals,
                   present_before>>

(***************************************************************************)
(* The try block around upload_cmdi_to_comedi with its except UploadError  *)
(* and else clauses.                                                       *)
(***************************************************************************)
Upload ==
    /\ pc = "upload"
    /\ LET req == UploadRequest(cmdi_data, urn, comedi_upload_url)
       IN  \E r \in UploadReplies(req) :
              LET e == UploadCmdiToComedi(r)
              IN  /\ requests' = Append(requests, [request |-> req,
                                                    result |-> r.transport])
                  /\ reply' = r
                  /\ catalog' = AfterUpload(req, r.verdict)
                  /\ IF e = "none"
                     THEN /\ successful_records' = successful_records + 1
                          /\ outcomes' = Append(outcomes, "uploaded")
                          /\ pc' = "iterate"
                          /\ UNCHANGED <<failed_records, exc>>
                     ELSE IF CaughtAtUpload(e)
                     THEN /\ failed_records' = failed_records + 1
                          /\ outcomes' = Append(outcomes, "failed_upload")
                          /\ pc' = "iterate"
                          /\ UNCHANGED <<successful_records, exc>>
                     ELSE /\ pc' = "aborted"
                          /\ exc' = [type |-> e, raised_by |-> "upload_cmdi_to_comedi"]
                          /\ UNCHANGED <<counters, outcomes>>
    /\ UNCHANGED <<calls, run, config, record, metadata_format, queried, locals,
                   present_before>>

(***************************************************************************)
(* The generator is exhausted: the summary line is printed.                *)
(***************************************************************************)
Summary ==
    /\ pc = "iterate"
    /\ record = metadata_records
    /\ pc' = "done"
    /\ UNCHANGED <<calls, run, config, record, metadata_format, queried, locals,
                   counters, outcomes, requests, reply, exc, catalog,
                   present_before>>

(***************************************************************************)
(* The script is started again with the same arguments, against the same   *)
(* destinations.                                                           *)
(***************************************************************************)
Rerun ==
    /\ pc = "done"
    /\ run < MaxRuns
    /\ run' = run + 1
    /\ pc' = "iterate"
    /\ record' = 0
    /\ metadata_format' = 0
    /\ queried' = <<>>
    /\ response_xml' = NoRecord
    /\ cmdi_record' = NoRecord
    /\ cmdi_data' = <<>>
    /\ urn' = <<>>
    /\ successful_records' = 0
    /\ failed_records' = 0
    /\ outcomes' = <<>>
    /\ requests' = <<>>
    /\ reply' = NoReply
    /\ present_before' = catalog[comedi_upload_url]
    /\ UNCHANGED <<calls, config, exc, catalog>>

OneRun ==
    \/ NextIdentifier
    \/ GetRecordUnsupported
    \/ GetRecordYield
    \/ Extract
    \/ Delete
    \/ Upload
    \/ Summary

Next == OneRun

Spec == Init /\ [][Next]_vars

\* The script run again and again against the same destinations.
NextRerun == OneRun \/ Rerun

SpecRerun == Init /\ [][NextRerun]_vars


(***************************************************************************)
(* Helpers of the properties.                                              *)
(***************************************************************************)
TransportFailures == {"ConnectionError", "HTTPError", "JSONDecodeError"}

\* The current identifier got an outcome (skipped, failed or uploaded).
Recorded == record >= 1 /\ Len(outcomes) = record

\* The source produced a document for the current identifier.
Resolved == queried # <<>> /\ queried[Len(queried)].result = "record"

\* The source reported every candidate as unsupported for the current identifier.
AllUnsupported ==
    /\ Len(queried) = Len(Formats)
    /\ \A i \in 1..Len(queried) : queried[i].result = "CannotDisseminateFormat"

RECURSIVE Count(_, _)
Count(seq, S) ==
    IF seq = <<>> THEN 0
    ELSE (IF Head(seq) \in S THEN 1 ELSE 0) + Count(Tail(seq), S)

(***************************************************************************)
(* C1: whatever the outcomes of the records, send_metadata carries every   *)
(* later record through the pipeline and reaches the final summary: no     *)
(* record's failure ends the run.                                          *)
(***************************************************************************)
C1_NoRecordAbortsTheRun == pc # "aborted"

(***************************************************************************)
(* C2: when the upload call of a record suffers a transport failure        *)
(* (connection failure, HTTP error status) or its reply cannot be parsed,  *)
(* the record is counted as exactly one failure and the run continues.     *)
(***************************************************************************)
C2_TransportFailureIsOneFailure ==
    reply.transport \in TransportFailures =>
        /\ pc \in {"iterate", "done"}
        /\ Recorded
        /\ outcomes[record] = "failed_upload"
        /\ failed_records = Count(outcomes, {"failed_extraction", "failed_upload"})

(***************************************************************************)
(* C3: when the transport call completed and the reply is parseable, the   *)
(* upload succeeds if and only if the reply has no error field and has a   *)
(* success field that is true; every other reply is an UploadError, which  *)
(* the orchestrator records as a failed upload.                            *)
(***************************************************************************)
C3_SuccessIffNoErrorAndSuccessTrue ==
    reply.transport = "ok" =>
        /\ pc \in {"iterate", "done"}
        /\ Recorded
        /\ outcomes[record] \in {"uploaded", "failed_upload"}
        /\ outcomes[record] = "uploaded" <=>
              (~reply.error /\ reply.success = "true")

\* A reply with an error field and success true was received and refused.
C3_Witness ==
    /\ reply.transport = "ok"
    /\ reply.error
    /\ reply.success = "true"
    /\ Recorded
    /\ outcomes[record] = "failed_upload"


(***************************************************************************)
(* C4: a source record for which the source reports every configured       *)
(* format candidate as unsupported is skipped: it is never extracted, no   *)
(* delete or upload is sent for it, and it changes neither the succeeded   *)
(* nor the failed count.                                                   *)
(***************************************************************************)
C4_SkippedState ==
    AllUnsupported =>
        /\ pc \in {"iterate", "done"}
        /\ Recorded
        /\ outcomes[record] = "skipped"
        /\ requests = <<>>

C4_SkipStep ==
    (AllUnsupported' /\ ~AllUnsupported) =>
        /\ pc' = "iterate"
        /\ UNCHANGED <<counters, locals, catalog, requests>>

\* C4: a record with every candidate unsupported is skipped and leaves the
\* counts, the locals and the destination untouched.
C4_UnsupportedRecordIsSkipped == []C4_SkippedState /\ [][C4_SkipStep]_vars

\* A record was skipped after another one had been counted.
C4_Witness ==
    /\ AllUnsupported
    /\ record >= 2
    /\ outcomes[record] = "skipped"
    /\ successful_records + failed_records = record - 1

(***************************************************************************)
(* C5: for a resolved record whose document has no oai:metadata/cmd:CMD    *)
(* node, extraction fails, the failed count grows by exactly one, the      *)
(* succeeded count by zero, and neither a delete nor an upload request is  *)
(* issued for that record.                                                 *)
(***************************************************************************)
C5_NoMetadataState ==
    (Resolved /\ response_xml.cmd = <<>>) =>
        /\ pc \in {"extract", "iterate", "done"}
        /\ requests = <<>>
        /\ pc # "extract" => (Recorded /\ outcomes[record] = "failed_extraction")

C5_NoMetadataStep ==
    (pc = "extract" /\ cmdi_record.cmd = <<>>) =>
        /\ failed_records' = failed_records + 1
        /\ successful_records' = successful_records
        /\ requests' = <<>>
        /\ catalog' = catalog
        /\ pc' = "iterate"

\* C5: a document without embedded metadata is exactly one failure and no
\* request is sent for it.
C5_NoMetadataIsOneFailure == []C5_NoMetadataState /\ [][C5_NoMetadataStep]_vars

\* A record without embedded metadata was counted as the one failure so far.
C5_Witness ==
    /\ Resolved
    /\ response_xml.cmd = <<>>
    /\ Recorded
    /\ outcomes[record] = "failed_extraction"
    /\ failed_records = 1
    /\ requests = <<>>

(***************************************************************************)
(* C6: a delete or upload request is issued for a record only after both   *)
(* payload extraction and identifier derivation succeeded for that same    *)
(* record: the document has the embedded metadata, its identifier field    *)
(* is present and holds the urn:nbn:fi: prefix, and the request carries    *)
(* the identifier and the payload derived from this record.                *)
(***************************************************************************)
HasEmbeddedMetadata(doc) == doc.cmd # <<>>

HasIdentifierField(doc) == doc.cmd[1].identifier # <<>>

IdentifierHasPrefix(doc) ==
    \E i \in 1..Len(doc.cmd[1].identifier[1]) :
        doc.cmd[1].identifier[1][i] = NBN_PREFIX

\* C6: requests are sent only once payload and identifier were both derived
\* from the current record.
C6_UploadOnlyAfterExtraction ==
    (pc \in {"delete", "upload"} \/ requests # <<>>) =>
        /\ Resolved
        /\ HasEmbeddedMetadata(response_xml)
        /\ HasIdentifierField(response_xml)
        /\ IdentifierHasPrefix(response_xml)
        /\ IsBound(urn)
        /\ IsBound(cmdi_data)
        /\ urn = ExtractUrn(response_xml).urn
        /\ Val(cmdi_data).root.identifier = response_xml.cmd[1].identifier
        /\ \A i \in 1..Len(requests) :
              /\ requests[i].request.identifier = urn
              /\ requests[i].request.command = "upload" =>
                    requests[i].request.file = cmdi_data

\* The identifier of a record has no prefix while urn is still bound from an
\* earlier record: the record is counted as failed and nothing is sent.
C6_Witness ==
    /\ pc = "iterate"
    /\ Resolved
    /\ Recorded
    /\ outcomes[record] = "failed_extraction"
    /\ HasEmbeddedMetadata(response_xml)
    /\ HasIdentifierField(response_xml)
    /\ ~IdentifierHasPrefix(response_xml)
    /\ IsBound(urn)
    /\ IsBound(cmdi_data)
    /\ requests = <<>>


(***************************************************************************)
(* C7: whenever the self-link normalizer fails on a resolved record (self  *)
(* link absent, or present but not rewritable), the record is counted as   *)
(* one failure, no delete and no upload is issued for it, and the run      *)
(* continues with the next record.                                         *)
(***************************************************************************)
SelfLinkNotRewritable(doc) ==
    /\ doc.cmd # <<>>
    /\ \/ doc.cmd[1].selfLink = <<>>
       \/ \A i \in 1..Len(doc.cmd[1].selfLink[1]) :
             doc.cmd[1].selfLink[1][i] # URN_FI

\* C7: a failing self-link normalizer is one counted failure, without any
\* request, and the run goes on.
C7_NormalizerFailureIsOneFailure ==
    (Resolved /\ SelfLinkNotRewritable(response_xml) /\ pc # "extract") =>
        /\ pc \in {"iterate", "done"}
        /\ Recorded
        /\ outcomes[record] = "failed_extraction"
        /\ requests = <<>>

(***************************************************************************)
(* C8: the succeeded and failed counts never decrease, and at end of input *)
(* succeeded + failed equals the number of records for which a format was  *)
(* resolved: each resolved record is counted exactly once, as succeeded    *)
(* if and only if its upload succeeded and as failed otherwise; skipped    *)
(* records add nothing.                                                    *)
(***************************************************************************)
C8_CountsState ==
    /\ successful_records = Count(outcomes, {"uploaded"})
    /\ failed_records = Count(outcomes, {"failed_extraction", "failed_upload"})
    /\ Recorded =>
          /\ outcomes[record] = "skipped" <=> ~Resolved
          /\ outcomes[record] = "uploaded" <=>
                (reply.transport = "ok" /\ ~reply.error /\ reply.success = "true")
    /\ pc = "done" =>
          /\ Len(outcomes) = metadata_records
          /\ successful_records + failed_records
                = metadata_records - Count(outcomes, {"skipped"})

C8_CountsStep ==
    /\ successful_records' >= successful_records
    /\ failed_records' >= failed_records
    /\ \/ outcomes' = outcomes
       \/ /\ Len(outcomes') = Len(outcomes) + 1
          /\ SubSeq(outcomes', 1, Len(outcomes)) = outcomes
          /\ (successful_records' + failed_records')
                - (successful_records + failed_records)
                = IF outcomes'[Len(outcomes')] = "skipped" THEN 0 ELSE 1

\* C8: the counts never decrease and at the summary every resolved record
\* is counted exactly once.
C8_EachResolvedRecordCountedOnce == []C8_CountsState /\ [][C8_CountsStep]_vars

\* Three records: the first skipped, the second failing extraction, the
\* third uploaded: 2 processed, 1 upload and 1 failure.
C8_Witness ==
    /\ pc = "done"
    /\ outcomes = <<"skipped", "failed_extraction", "uploaded">>
    /\ successful_records = 1
    /\ failed_records = 1

(***************************************************************************)
(* C9: with the replace policy enabled the pre-delete is best-effort:      *)
(* whatever its outcome (record deleted, no record to delete, destination  *)
(* error, transport failure) it never raises, and the upload of the same   *)
(* record is attempted afterwards in every case.                           *)
(***************************************************************************)
C9_DeleteNeverRaises ==
    (requests # <<>> /\ requests[1].request.command = "delete-record"
        /\ pc # "upload") =>
        /\ exc.raised_by # "delete_from_comedi"
        /\ Len(requests) = 2
        /\ requests[2].request.command = "upload"
        /\ requests[2].request.identifier = requests[1].request.identifier

(***************************************************************************)
(* C10: with the replace policy enabled, running the pipeline a second     *)
(* time on a record whose canonical identifier is already present in the   *)
(* destination (the first run uploaded it) yields the same success         *)
(* outcome: when the pre-delete was carried out, the destination answers   *)
(* and does not object to the content, the record is uploaded again.       *)
(***************************************************************************)
C10_RerunUploadsAgain ==
    (/\ run >= 2
     /\ delete_before_upload
     /\ reply.transport = "ok"
     /\ reply.verdict # "refused"
     /\ Val(urn) # <<>>
     /\ Val(urn) \in present_before
     /\ requests[1].result \in {"deleted", "not_found"}) =>
        /\ Recorded
        /\ outcomes[record] = "uploaded"


(***************************************************************************)
(* The functions of the script called on a document on their own, outside  *)
(* a run of send_metadata: self_link_urn_only on the CMD subtree of the    *)
(* document (in place), extract_urn on the document, and extract_urn on a  *)
(* copy of the document whose identifier text has whitespace appended.     *)
(* calls records each call: its argument, the exception and the result.    *)
(***************************************************************************)
MaxCalls == 3        \* calls made on one document
MaxWhitespace == 2   \* whitespace characters appended to an identifier

AllCmdSubtrees == [selfLink : SelfLinkFields, identifier : IdentifierFields]

AllDocuments == {[cmd |-> <<>>]} \cup {[cmd |-> <<c>>] : c \in AllCmdSubtrees}

RECURSIVE Whitespace(_)
Whitespace(n) == IF n = 0 THEN <<>> ELSE <<WS>> \o Whitespace(n - 1)

WithWhitespace(doc, n) ==
    IF doc.cmd = <<>> \/ doc.cmd[1].identifier = <<>>
    THEN doc
    ELSE [cmd |-> << [doc.cmd[1] EXCEPT
                        !.identifier = << @[1] \o Whitespace(n) >>] >>]

InitCalls ==
    /\ run = 1
    /\ metadata_records = 0
    /\ comedi_upload_url = DefaultComedi
    /\ delete_before_upload = FALSE
    /\ pc = "calls"
    /\ record = 0
    /\ metadata_format = 0
    /\ queried = <<>>
    /\ response_xml \in AllDocuments
    /\ cmdi_record = response_xml
    /\ cmdi_data = <<>>
    /\ urn = <<>>
    /\ successful_records = 0
    /\ failed_records = 0
    /\ outcomes = <<>>
    /\ requests = <<>>
    /\ reply = NoReply
    /\ exc = NoException
    /\ catalog = [d \in Destinations |-> {}]
    /\ present_before = {}
    /\ calls = <<>>

CallSelfLinkUrnOnly ==
    /\ pc = "calls"
    /\ Len(calls) < MaxCalls
    /\ cmdi_record.cmd # <<>>
    /\ LET r == SelfLinkUrnOnly(cmdi_record.cmd[1])
       IN  /\ cmdi_record' = [cmdi_record EXCEPT !.cmd = <<r.cmd>>]
           /\ calls' = Append(calls, [function |-> "self_link_urn_only",
                                      argument |-> cmdi_record,
                                      exc |-> r.exc,
                                      result |-> <<r.cmd.selfLink>>])
    /\ UNCHANGED <<run, config, pc, record, metadata_format, queried,
                   response_xml, cmdi_data, urn, counters, outcomes, requests,
                   reply, exc, catalog, present_before>>

CallExtractUrn ==
    /\ pc = "calls"
    /\ Len(calls) < MaxCalls
    /\ \E n \in 0..MaxWhitespace :
          LET doc == WithWhitespace(cmdi_record, n)
              r == ExtractUrn(doc)
          IN  /\ urn' = r.urn
              /\ calls' = Append(calls, [function |-> "extract_urn",
                                         argument |-> doc,
                                         exc |-> r.exc,
                                         result |-> r.urn])
    /\ UNCHANGED <<run, config, pc, record, metadata_format, queried,
                   response_xml, cmdi_record, cmdi_data, counters, outcomes,
                   requests, reply, exc, catalog, present_before>>

NextCalls == CallSelfLinkUrnOnly \/ CallExtractUrn

SpecCalls == InitCalls /\ [][NextCalls]_vars


(***************************************************************************)
(* C11: self_link_urn_only is idempotent: it rewrites a self link such as  *)
(* http://urn.fi/urn:nbn:fi:lb-1 to urn:nbn:fi:lb-1, and a second          *)
(* application to the already rewritten subtree raises no error and        *)
(* leaves the subtree as the first application left it.                    *)
(***************************************************************************)
C11_SelfLinkUrnOnlyIdempotent ==
    \A i \in 1..Len(calls) :
        (calls[i].function = "self_link_urn_only" /\ calls[i].exc = "none") =>
            /\ calls[i].argument.cmd[1].selfLink = << ResolverLink >> =>
                  calls[i].result = << << <<NBN_PREFIX, "lb-1">> >> >>
            /\ (i < Len(calls) /\ calls[i + 1].function = "self_link_urn_only") =>
                  /\ calls[i + 1].exc = "none"
                  /\ calls[i + 1].result = calls[i].result

(***************************************************************************)
(* C13: identifier derivation is insensitive to whitespace appended to     *)
(* the identifier field: for every value v holding the urn:nbn:fi: prefix, *)
(* extract_urn gives the same canonical identifier for v and for v with    *)
(* whitespace appended.                                                    *)
(***************************************************************************)
IdentifierText(doc) == doc.cmd[1].identifier[1]

AppendedWhitespace(v, w) ==
    \E n \in 1..MaxWhitespace : w = v \o Whitespace(n)

C13_WhitespaceInsensitive ==
    \A i, j \in 1..Len(calls) :
        (/\ calls[i].function = "extract_urn"
         /\ calls[j].function = "extract_urn"
         /\ HasEmbeddedMetadata(calls[i].argument)
         /\ HasIdentifierField(calls[i].argument)
         /\ IdentifierHasPrefix(calls[i].argument)
         /\ AppendedWhitespace(IdentifierText(calls[i].argument),
                               IdentifierText(calls[j].argument))) =>
            /\ calls[i].exc = "none"
            /\ calls[j].exc = "none"
            /\ calls[j].result = calls[i].result

\* urn:nbn:fi:lb-1 and the same text with a trailing space both gave lb-1.
C13_Witness ==
    \E i, j \in 1..Len(calls) :
        /\ calls[i].function = "extract_urn"
        /\ calls[j].function = "extract_urn"
        /\ calls[i].argument.cmd # <<>>
        /\ calls[i].argument.cmd[1].identifier = << PlainIdentifier >>
        /\ calls[j].argument.cmd[1].identifier = << PlainIdentifier \o <<WS>> >>
        /\ calls[i].result = << <<"lb-1">> >>
        /\ calls[j].result = << <<"lb-1">> >>


(***************************************************************************)
(* C12: every canonical identifier with which a delete or upload request   *)
(* is issued is non-empty, has no leading or trailing whitespace and does  *)
(* not contain the urn:nbn:fi: prefix, whatever identifier field value the *)
(* source delivers.                                                        *)
(***************************************************************************)
WellFormedIdentifier(id) ==
    /\ id # <<>>
    /\ Head(id) # WS
    /\ id[Len(id)] # WS
    /\ \A i \in 1..Len(id) : id[i] # NBN_PREFIX

C12_RequestIdentifiersWellFormed ==
    \A i \in 1..Len(requests) :
        /\ IsBound(requests[i].request.identifier)
        /\ WellFormedIdentifier(Val(requests[i].request.identifier))

(***************************************************************************)
(* C14: for every source record the candidates are queried in their fixed  *)
(* priority order, each candidate reported as unsupported is passed over   *)
(* for the next one, the payload of the first candidate the source can     *)
(* produce is yielded, and no lower-priority candidate is queried after    *)
(* it: a record yields at most one payload.                                *)
(***************************************************************************)
C14_QueriesState ==
    /\ Len(queried) <= Len(Formats)
    /\ \A i \in 1..Len(queried) :
          /\ queried[i].metadataPrefix = Formats[i]
          /\ i < Len(queried) => queried[i].result = "CannotDisseminateFormat"
    /\ pc = "get_record" =>
          /\ metadata_format = Len(queried) + 1
          /\ \A i \in 1..Len(queried) :
                queried[i].result = "CannotDisseminateFormat"
    /\ (pc # "get_record" /\ record >= 1 /\ ~Resolved) => AllUnsupported
    /\ (pc \in {"extract", "delete", "upload"}) => Resolved

C14_QueriesStep ==
    /\ Resolved =>
          /\ queried' = queried \/ (queried' = <<>> /\ record' = record + 1)
          /\ response_xml' = response_xml
    /\ (~Resolved /\ Resolved') =>
          /\ pc = "get_record"
          /\ queried' = Append(queried, [metadataPrefix |-> Formats[metadata_format],
                                         result |-> "record"])
          /\ response_xml' \in Documents
          /\ cmdi_record' = response_xml'
          /\ pc' = "extract"

\* C14: the candidates are tried in priority order and the first producible
\* one is the only payload of the record.
C14_FirstProducibleFormat == []C14_QueriesState /\ [][C14_QueriesStep]_vars

\* The third candidate was the first the source could produce.
C14_Witness ==
    /\ Resolved
    /\ pc = "extract"
    /\ Len(queried) = 3
    /\ queried[1].result = "CannotDisseminateFormat"
    /\ queried[2].result = "CannotDisseminateFormat"
    /\ queried[3] = [metadataPrefix |-> "cmdi2312", result |-> "record"]

(***************************************************************************)
(* C15: for every record that reaches the upload stage the requests sent   *)
(* are a delete request if and only if the replace policy is enabled,      *)
(* issued before the upload with the identifier the upload carries,        *)
(* followed by exactly one upload request; an upload is never retried.     *)
(***************************************************************************)
IsUpload(entry) == entry.request.command = "upload"
IsDelete(entry) == entry.request.command = "delete-record"

C15_RequestsState ==
    /\ Len(requests) <= 2
    /\ \A i \in 1..Len(requests) :
          IsUpload(requests[i]) =>
             /\ i = Len(requests)
             /\ i = IF delete_before_upload THEN 2 ELSE 1
             /\ delete_before_upload =>
                   /\ IsDelete(requests[1])
                   /\ requests[1].request.identifier = requests[i].request.identifier
                   /\ requests[1].result # "ConnectionError"
    /\ \A i \in 1..Len(requests) :
          IsDelete(requests[i]) => (i = 1 /\ delete_before_upload)
    /\ pc = "upload" => Len(requests) = IF delete_before_upload THEN 1 ELSE 0
    /\ (Recorded /\ outcomes[record] \in {"uploaded", "failed_upload"}) =>
          (requests # <<>> /\ IsUpload(requests[Len(requests)]))

C15_RequestsStep ==
    (requests # <<>> /\ IsUpload(requests[Len(requests)])) =>
        /\ pc' # "upload"
        /\ requests' = requests \/ (requests' = <<>> /\ record' = record + 1)

\* C15: delete exactly when the replace policy is on, then one upload.
C15_DeleteThenOneUpload == []C15_RequestsState /\ [][C15_RequestsStep]_vars

\* With the replace policy a delete and then one upload were sent, the
\* upload was refused and the record is counted as failed.
C15_Witness ==
    /\ delete_before_upload
    /\ Recorded
    /\ outcomes[record] = "failed_upload"
    /\ Len(requests) = 2
    /\ IsDelete(requests[1])
    /\ IsUpload(requests[2])

(***************************************************************************)
(* C16: processing is strictly sequential: no source query for the next    *)
(* record is made before the current one was skipped, counted as failed    *)
(* or had its upload outcome recorded; never are two records in flight.    *)
(***************************************************************************)
InFlight == pc \in {"get_record", "extract", "delete", "upload", "aborted"}

C16_SequentialState ==
    /\ InFlight => (record >= 1 /\ Len(outcomes) = record - 1)
    /\ ~InFlight => Len(outcomes) = record

C16_SequentialStep ==
    /\ record' # record =>
          /\ record' = record + 1
          /\ Len(outcomes) = record
          /\ queried' = <<>>
    /\ (queried' # queried /\ queried' # <<>>) =>
          /\ record' = record
          /\ Len(outcomes) = record - 1
          /\ requests = <<>>

\* C16: one record at a time.
C16_StrictlySequential == []C16_SequentialState /\ [][C16_SequentialStep]_vars

\* The source is queried for the third record after the first two got
\* their outcomes.
C16_Witness ==
    /\ pc = "get_record"
    /\ record = 3
    /\ Len(queried) = 1
    /\ Len(outcomes) = 2
    /\ outcomes[1] = "uploaded"
    /\ outcomes[2] = "failed_upload"


(***************************************************************************)
(* C17: the pipeline never mutates a resolved source record: after         *)
(* extraction and the normalizer chain the record's document, its self     *)
(* link included, is what the format negotiator returned.                  *)
(***************************************************************************)
C17_SourceRecordNeverMutated == cmdi_record = response_xml

(***************************************************************************)
(* C17 as amended: the pipeline changes a resolved source record in one    *)
(* place only, the self-link field of its embedded metadata, which the     *)
(* normalizer rewrites in place to the text after "urn.fi/"; everything    *)
(* else of the document, the identifier field included, stays what the     *)
(* format negotiator returned, and a self link that cannot be rewritten    *)
(* is left as it was.                                                      *)
(***************************************************************************)
C17_OnlySelfLinkRewritten ==
    /\ (cmdi_record.cmd = <<>>) <=> (response_xml.cmd = <<>>)
    /\ cmdi_record.cmd # <<>> =>
          /\ Len(cmdi_record.cmd) = 1
          /\ cmdi_record.cmd[1].identifier = response_xml.cmd[1].identifier
          /\ IF pc = "extract" \/ SelfLinkNotRewritable(response_xml)
             THEN cmdi_record.cmd[1].selfLink = response_xml.cmd[1].selfLink
             ELSE cmdi_record.cmd[1].selfLink
                     = << Split(response_xml.cmd[1].selfLink[1], URN_FI)[2] >>
    /\ (pc \in {"delete", "upload"}) => Val(cmdi_data).root = cmdi_record.cmd[1]

\* The record the negotiator returned with a resolver URL as self link now
\* holds the bare URN.
C17_Witness ==
    /\ pc = "upload"
    /\ response_xml.cmd # <<>>
    /\ response_xml.cmd[1].selfLink = << ResolverLink >>
    /\ cmdi_record.cmd[1].selfLink = << <<NBN_PREFIX, "lb-1">> >>
    /\ cmdi_record # response_xml

(***************************************************************************)
(* C18: every delete request is addressed to the destination configured    *)
(* for the run: the pre-delete and the upload of a record go to the same   *)
(* destination catalog.                                                    *)
(***************************************************************************)
C18_DeleteGoesToConfiguredDestination ==
    \A i \in 1..Len(requests) :
        requests[i].request.host = comedi_upload_url

(***************************************************************************)
(* C19: identifier derivation and the normalizer chain commute: the        *)
(* canonical identifier send_metadata obtains (or the extraction error it  *)
(* handles) after the self-link normalizer ran on the record is the one    *)
(* extract_urn gives on the record as the negotiator returned it.          *)
(***************************************************************************)
C19_NormalizerAndIdentifierCommute ==
    (/\ Resolved
     /\ pc # "extract"
     /\ HasEmbeddedMetadata(response_xml)
     /\ ~SelfLinkNotRewritable(response_xml)) =>
        LET before == ExtractUrn(response_xml)
            after == ExtractUrn(cmdi_record)
        IN  /\ after = before
            /\ IF before.exc = "none"
               THEN /\ urn = before.urn
                    /\ Recorded => outcomes[record] # "failed_extraction"
               ELSE /\ Recorded
                    /\ outcomes[record] = "failed_extraction"
                    /\ requests = <<>>

\* The self link was rewritten and the identifier with trailing whitespace
\* still gives lb-1.
C19_Witness ==
    /\ pc = "upload"
    /\ cmdi_record # response_xml
    /\ response_xml.cmd[1].identifier = << <<NBN_PREFIX, "lb-1", WS>> >>
    /\ urn = << <<"lb-1">> >>

====
